---- MODULE Spec2Model ----
(***************************************************************************)
(* A model of the realtime update listener of com.ubnt.unifiprotect:       *)
(* class ProtectWebSocket (connection lifecycle, heartbeat, bootstrap      *)
(* gated reconnection) and its frame decoder.                              *)
(***************************************************************************)
EXTENDS Integers, Sequences, FiniteSets, TLC

\* ------------------------------------------------------------------ bounds
MaxSockets == 2       \* sockets the model lets the manager construct
MaxPolls == 2         \* pending 250 ms bootstrap polls an outside caller may add
MaxThens == 1         \* promise reactions an outside reconnect call may queue
MaxHandlers == 2      \* decoding message handlers on one socket
MaxText == 2          \* bytes of the text carried by one generated sub-frame

Sockets == 1..MaxSockets

VARIABLES
    eventListener,            \* this._eventListener
    eventListenerConfigured,  \* this._eventListenerConfigured
    pingPong,                 \* this._pingPong
    lastUpdateId,             \* Homey.app.protectapi._lastUpdateId
    sock,                     \* per socket: where it is in its life
    closeRequested,           \* live sockets on which close() has been called
    handlers,                 \* per live socket: decoding 'message' handlers attached
    timers,                   \* armed setInterval timers (named by their socket)
    nsock,                    \* sockets constructed so far
    polls,                    \* pending setTimeout(waitForBootstrap, 250)
    thens,                    \* queued .then(() => waitForBootstrap()) reactions
    status,                   \* last EVENT_SETTINGS_WEBSOCKET_STATUS emitted
    lifecycle,                \* last status emitted that is no error message
    lastLaunch,               \* what the last launchUpdatesListener() did, its caller,
                              \* its return value and the cursor it read
    lastPing,                 \* the last heartbeat tick: its timer, the state of the
                              \* timer's socket, and of the socket it sent to
    packet,                   \* the buffer of the inbound 'message' event
    handled,                  \* what the decoding 'message' handler did with it
    last_motion_at,           \* Camera capability values
    alarm_motion,
    last_motion_date,
    last_motion_time,
    lastMotionCall,           \* the arguments of the last onMotionDetected call
    last_ring_at,             \* Camera capability value
    doorbellRingingTrigger,   \* this._doorbellRingingTrigger: registered or not
    lastRingCall,             \* the last onDoorbellRinging call and what it did
    cameraStarted,            \* Camera.onInit has been called
    cameraPolls,              \* pending setTimeout(waitForBootstrap, 250) of the Camera
    initCameraRuns,           \* calls of initCamera
    initCameraCursor          \* getLastUpdateId() as the last initCamera call found it

vars == <<eventListener, eventListenerConfigured, pingPong, lastUpdateId, sock,
          closeRequested, handlers, timers, nsock, polls, thens, status,
          lifecycle, lastLaunch, lastPing, packet, handled,
          last_motion_at, alarm_motion, last_motion_date, last_motion_time,
          lastMotionCall, last_ring_at, doorbellRingingTrigger, lastRingCall,
          cameraStarted, cameraPolls, initCameraRuns, initCameraCursor>>

\* The state of the ProtectWebSocket manager and of the Camera device.
managerVars == <<eventListener, eventListenerConfigured, pingPong, lastUpdateId,
                 sock, closeRequested, handlers, timers, nsock, polls, thens,
                 status, lifecycle, lastLaunch, lastPing>>
cameraVars == <<last_motion_at, alarm_motion, last_motion_date, last_motion_time,
                lastMotionCall, last_ring_at, doorbellRingingTrigger, lastRingCall,
          cameraStarted, cameraPolls, initCameraRuns, initCameraCursor>>

\* ------------------------------------------------------- JavaScript values
\* A reference-valued field: null, undefined (deleted / never set) or an object.
NullRef == [tag |-> "null", id |-> 0]
Undefined == [tag |-> "undefined", id |-> 0]
Ref(n) == [tag |-> "object", id |-> n]
Truthy(r) == r.tag = "object"

CursorValues == {"undefined", "null", "id"}
\* typeof x !== 'undefined' && x !== null
Present(c) == c # "undefined" /\ c # "null"

\* The manager's fields and what they refer to, as one value the methods map.
M == [el |-> eventListener, cfg |-> eventListenerConfigured, pp |-> pingPong,
      cursor |-> lastUpdateId, sock |-> sock, creq |-> closeRequested,
      handlers |-> handlers, timers |-> timers, nsock |-> nsock,
      polls |-> polls, thens |-> thens, status |-> status,
      lifecycle |-> lifecycle,
      lastLaunch |-> lastLaunch]

Commit(m) ==
    /\ eventListener' = m.el
    /\ eventListenerConfigured' = m.cfg
    /\ pingPong' = m.pp
    /\ lastUpdateId' = m.cursor
    /\ sock' = m.sock
    /\ closeRequested' = m.creq
    /\ handlers' = m.handlers
    /\ timers' = m.timers
    /\ nsock' = m.nsock
    /\ polls' = m.polls
    /\ thens' = m.thens
    /\ status' = m.status
    /\ lifecycle' = m.lifecycle
    /\ lastLaunch' = m.lastLaunch
    /\ UNCHANGED <<packet, handled>>
    /\ UNCHANGED cameraVars

NoPing == [outcome |-> "none", timer |-> 0, timerSock |-> "none",
           state |-> "none", closeRequested |-> FALSE]

\* No 'message' handled yet.
NoResult == [t |-> "none"]

InitManager ==
    /\ eventListener = NullRef
    /\ eventListenerConfigured = "undefined"
    /\ pingPong = NullRef
    /\ lastUpdateId \in {"undefined", "null"}
    /\ sock = [s \in Sockets |-> "none"]
    /\ closeRequested = {}
    /\ handlers = [s \in Sockets |-> 0]
    /\ timers = {}
    /\ nsock = 0
    /\ polls = 0
    /\ thens = 0
    /\ status = "none"
    /\ lifecycle = "none"
    /\ lastLaunch = [kind |-> "none", via |-> "none", ret |-> "none", cursor |-> "undefined"]
    /\ lastPing = NoPing

\* A Camera device whose capabilities have no value yet.
NoValue == [t |-> "null", n |-> 0, s |-> <<>>, f |-> <<>>]
NoCall == [time |-> 0, detected |-> FALSE, made |-> FALSE]
NoRing == [time |-> 0, outcome |-> "none", stored |-> NoValue]
InitCamera ==
    /\ last_motion_at = NoValue
    /\ alarm_motion = NoValue
    /\ last_motion_date = NoValue
    /\ last_motion_time = NoValue
    /\ lastMotionCall = NoCall
    /\ last_ring_at = NoValue
    /\ doorbellRingingTrigger = FALSE
    /\ lastRingCall = NoRing
    /\ cameraStarted = FALSE
    /\ cameraPolls = 0
    /\ initCameraRuns = 0
    /\ initCameraCursor = "none"

Init ==
    /\ InitManager
    /\ packet = <<>>
    /\ handled = NoResult
    /\ InitCamera

\* ------------------------------------------------------------ the methods
\* clearInterval(handle)
clearInterval(m, h) ==
    IF h.tag = "object" THEN [m EXCEPT !.timers = @ \ {h.id}] ELSE m

\* launchUpdatesListener() without its "already have a listener" test.
launchUpdatesListener_NoGuard(m, ok, via) ==
    IF ~ok \/ m.nsock >= MaxSockets
    THEN [m EXCEPT !.lastLaunch = [kind |-> "noop", via |-> via, ret |-> "true",
                                   cursor |-> m.cursor]]
    ELSE LET s == m.nsock + 1 IN
         [m EXCEPT !.status = "Connecting",
                   !.lifecycle = "Connecting",
                   !.nsock = s,
                   !.sock[s] = "connecting",
                   !.el = Ref(s),
                   !.pp = Ref(s),
                   !.timers = @ \cup {s},
                   !.lastLaunch = [kind |-> "created", via |-> via, ret |-> "true",
                                   cursor |-> m.cursor]]

\* launchUpdatesListener(): ok is whether `new WebSocket(...)` returns (or throws),
\* via is the caller.
launchUpdatesListener(m, ok, via) ==
    IF Truthy(m.el)
    THEN [m EXCEPT !.lastLaunch = [kind |-> "noop", via |-> via, ret |-> "true",
                                   cursor |-> m.cursor]]
    ELSE IF ~ok
    THEN [m EXCEPT !.status = "error",
                   !.lastLaunch = [kind |-> "threw", via |-> via, ret |-> "true",
                                   cursor |-> m.cursor]]
    ELSE LET s == m.nsock + 1 IN
         [m EXCEPT !.status = "Connecting",
                   !.lifecycle = "Connecting",
                   !.nsock = s,
                   !.sock[s] = "connecting",
                   !.el = Ref(s),
                   !.pp = Ref(s),
                   !.timers = @ \cup {s},
                   !.lastLaunch = [kind |-> "created", via |-> via, ret |-> "true",
                                   cursor |-> m.cursor]]

\* The model constructs at most MaxSockets sockets.
CanLaunch(m, ok) == Truthy(m.el) \/ ~ok \/ m.nsock < MaxSockets

\* ws: WebSocket.close()
wsClose(m, s) ==
    [m EXCEPT !.creq = @ \cup {s},
              !.sock[s] = IF @ = "connecting" THEN "aborting"
                          ELSE IF @ = "open" THEN "closing" ELSE @]

\* disconnectEventListener() that also forgets the socket.
disconnectEventListener_Clears(m) ==
    LET m1 == IF m.el.tag = "object" THEN wsClose(m, m.el.id) ELSE m
    IN [m1 EXCEPT !.cfg = "false", !.el = Undefined]

disconnectEventListener(m) ==
    LET m1 == IF m.el.tag = "object" THEN wsClose(m, m.el.id) ELSE m
    IN [m1 EXCEPT !.cfg = "false"]

reconnectUpdatesListener(m) ==
    [disconnectEventListener(m) EXCEPT !.thens = @ + 1]

configureUpdatesListener(m) ==
    IF ~Truthy(m.el) \/ m.cfg = "true"
    THEN m
    ELSE [m EXCEPT !.handlers[m.el.id] = @ + 1, !.cfg = "true"]

\* waitForBootstrap() launching without looking at the cursor.
waitForBootstrap_NoGate(m, ok) ==
    configureUpdatesListener(launchUpdatesListener(m, ok, "bootstrap"))

waitForBootstrap(m, ok) ==
    IF Present(m.cursor)
    THEN configureUpdatesListener(launchUpdatesListener(m, ok, "bootstrap"))
    ELSE [m EXCEPT !.polls = @ + 1]

\* The 'open' handler.
onOpen(m) == [m EXCEPT !.status = "Connected", !.lifecycle = "Connected"]

\* An 'error' handler that tears the connection down itself.
onError_Teardown(m) ==
    LET m1 == [m EXCEPT !.el = Undefined, !.cfg = "false"]
        m2 == clearInterval(m1, m1.pp)
        m3 == [m2 EXCEPT !.status = "error"]
    IN reconnectUpdatesListener(m3)

\* The 'error' handler.
onError(m) == [m EXCEPT !.status = "error"]

\* The 'close' handler without its clearInterval.
onClose_NoClear(m) ==
    reconnectUpdatesListener([m EXCEPT !.el = Undefined, !.cfg = "false",
                                       !.status = "Disconnected",
                                       !.lifecycle = "Disconnected"])

\* The 'close' handler.
onClose(m) ==
    LET m1 == [m EXCEPT !.el = Undefined, !.cfg = "false"]
        m2 == clearInterval(m1, m1.pp)
        m3 == [m2 EXCEPT !.status = "Disconnected", !.lifecycle = "Disconnected"]
    IN reconnectUpdatesListener(m3)

\* sendPingPongMessage(), run by timer t: what the tick does.
sendPingPongMessage(m, t) ==
    IF m.el.tag # "null"
    THEN IF m.el.tag = "undefined"
         THEN [outcome |-> "TypeError", timer |-> t, timerSock |-> m.sock[t],
               state |-> "none", closeRequested |-> FALSE]
         ELSE [outcome |-> "send", timer |-> t, timerSock |-> m.sock[t],
               state |-> m.sock[m.el.id],
               closeRequested |-> m.el.id \in m.creq]
    ELSE [outcome |-> "skip", timer |-> t, timerSock |-> m.sock[t],
          state |-> "none", closeRequested |-> FALSE]

\* ------------------------------------------------------------ the actions
\* Calls made by the owner of the manager.
CallLaunch ==
    \E ok \in BOOLEAN :
        /\ CanLaunch(M, ok)
        /\ Commit(launchUpdatesListener(M, ok, "direct"))
        /\ UNCHANGED lastPing

HandlerRoom(m) == Truthy(m.el) => m.handlers[m.el.id] < MaxHandlers

CallDisconnect ==
    /\ HandlerRoom(M)
    /\ Commit(disconnectEventListener(M))
    /\ UNCHANGED lastPing

CallReconnect ==
    /\ HandlerRoom(M)
    /\ thens < MaxThens
    /\ polls + thens < MaxPolls
    /\ Commit(reconnectUpdatesListener(M))
    /\ UNCHANGED lastPing

CallWaitForBootstrap ==
    \E ok \in BOOLEAN :
        /\ CanLaunch(M, ok)
        /\ ~Present(lastUpdateId) => polls + thens < MaxPolls
        /\ Commit(waitForBootstrap(M, ok))
        /\ UNCHANGED lastPing

CallConfigure ==
    /\ Commit(configureUpdatesListener(M))
    /\ UNCHANGED lastPing

\* The promise reaction queued by reconnectUpdatesListener: it runs before any
\* other callback of the event loop.
ThenRun ==
    \E ok \in BOOLEAN :
        /\ thens > 0
        /\ CanLaunch(M, ok)
        /\ Commit(waitForBootstrap([M EXCEPT !.thens = @ - 1], ok))
        /\ UNCHANGED lastPing

\* A 250 ms poll timer fires.
PollFire ==
    \E ok \in BOOLEAN :
        /\ thens = 0
        /\ polls > 0
        /\ CanLaunch(M, ok)
        /\ Commit(waitForBootstrap([M EXCEPT !.polls = @ - 1], ok))
        /\ UNCHANGED lastPing

SocketOpen ==
    \E s \in Sockets :
        /\ thens = 0
        /\ sock[s] = "connecting"
        /\ Commit(onOpen([M EXCEPT !.sock[s] = "open"]))
        /\ UNCHANGED lastPing

\* ws emits 'error' (failed handshake, close() before the handshake ended,
\* protocol error) and always closes the socket afterwards.
SocketError ==
    \E s \in Sockets :
        /\ thens = 0
        /\ sock[s] \in {"connecting", "aborting", "open"}
        /\ Commit(onError([M EXCEPT !.sock[s] = "closing"]))
        /\ UNCHANGED lastPing

\* ws emits 'close': once per socket, last of its events.
SocketClose ==
    \E s \in Sockets :
        /\ thens = 0
        /\ sock[s] \in {"open", "closing"}
        /\ Commit(onClose([M EXCEPT !.sock[s] = "closed",
                                    !.creq = @ \ {s},
                                    !.handlers[s] = 0]))
        /\ UNCHANGED lastPing

\* A heartbeat interval timer fires.
Tick ==
    \E t \in timers :
        /\ thens = 0
        /\ lastPing' = sendPingPongMessage(M, t)
        /\ Commit(M)

\* The bootstrap collaborator sets or clears the cursor.
SetCursor ==
    \E c \in {"null", "id"} :
        /\ c # lastUpdateId
        /\ Commit([M EXCEPT !.cursor = c])
        /\ UNCHANGED lastPing

Next ==
    \/ CallLaunch
    \/ CallDisconnect
    \/ CallReconnect
    \/ CallWaitForBootstrap
    \/ CallConfigure
    \/ ThenRun
    \/ PollFire
    \/ SocketOpen
    \/ SocketError
    \/ SocketClose
    \/ Tick
    \/ SetCursor

Spec == Init /\ [][Next]_vars

\* Timers, promise reactions and socket events are run by the event loop.
FairSpec ==
    /\ Spec
    /\ WF_vars(ThenRun)
    /\ WF_vars(PollFire)
    /\ WF_vars(SocketError \/ SocketClose)

\* ------------------------------------------------------- the frame decoder
UPDATE_PACKET_HEADER_SIZE == 8

\* Values of the decoder: t is the JavaScript type ("null", "undefined", "num",
\* "bool", "str", "obj", "buf") or the error thrown; n the number, s the
\* characters or bytes, f the members [k, v] of an object in their order.
Val(t, n, s) == [t |-> t, n |-> n, s |-> s, f |-> <<>>]
Obj(members) == [t |-> "obj", n |-> 0, s |-> <<>>, f |-> members]
Null == Val("null", 0, <<>>)
Undef == Val("undefined", 0, <<>>)
Bool(b) == Val("bool", IF b THEN 1 ELSE 0, <<>>)
\* A decodeUpdateFrame call that was not made.
NotCalled == Val("notcalled", 0, <<>>)
Errors == {"RangeError", "SyntaxError", "ZlibError"}
IsThrow(v) == v.t \in Errors
\* !v
Falsy(v) ==
    \/ v.t = "null"
    \/ v.t = "undefined"
    \/ v.t = "num" /\ v.n = 0
    \/ v.t = "bool" /\ v.n = 0
    \/ v.t = "str" /\ v.s = <<>>

\* v[key]: the last member of that name of an object, undefined otherwise.
Get(v, key) ==
    LET hits == {i \in 1..Len(v.f) : v.f[i].k = key}
    IN IF v.t = "obj" /\ hits # {}
       THEN v.f[CHOOSE i \in hits : \A j \in hits : j <= i].v
       ELSE Undef

\* Buffer.readUInt8(off), Buffer.readUInt32BE(off): a RangeError out of range.
readUInt8(b, off) ==
    IF off + 1 > Len(b) THEN Val("RangeError", 0, <<>>)
    ELSE Val("num", b[off + 1], <<>>)

readUInt32BE(b, off) ==
    IF off + 4 > Len(b) THEN Val("RangeError", 0, <<>>)
    ELSE Val("num", ((b[off + 1] * 256 + b[off + 2]) * 256 + b[off + 3]) * 256
                    + b[off + 4], <<>>)

\* Buffer.slice(start), Buffer.slice(start, end): both clamped to the length.
slice(b, start, end) ==
    LET e == IF end > Len(b) THEN Len(b) ELSE end
    IN IF start >= e THEN <<>> ELSE SubSeq(b, start + 1, e)

RECURSIVE Sum(_)
Sum(b) == IF b = <<>> THEN 0 ELSE Head(b) + Sum(Tail(b))

\* zlib: a stream is a header byte, the data and a check byte over the data;
\* inflateSync throws on anything else.
Checksum(d) == (1 + Sum(d)) % 256
deflateSync(d) == <<120>> \o d \o <<Checksum(d)>>
inflateSync(b) ==
    IF /\ Len(b) >= 2
       /\ b[1] = 120
       /\ b[Len(b)] = Checksum(SubSeq(b, 2, Len(b) - 1))
    THEN Val("buf", 0, SubSeq(b, 2, Len(b) - 1))
    ELSE Val("ZlibError", 0, <<>>)

\* Buffer.toString(): UTF-8 decoding; a byte that is no UTF-8 becomes U+FFFD.
toString(b) == [i \in 1..Len(b) |-> IF b[i] < 128 THEN b[i] ELSE 65533]

\* JSON.parse on a text without white space: a number without leading zero, a
\* string, null, true, false, or an object whose members are such values or {}
\* (strings hold no quote, backslash, comma or colon).
IsDigit(c) == c >= 48 /\ c <= 57
RECURSIVE Decimal(_)
Decimal(s) ==
    IF s = <<>> THEN 0 ELSE Decimal(SubSeq(s, 1, Len(s) - 1)) * 10 + (s[Len(s)] - 48)
\* The first place of character c in s, 0 when there is none.
IndexOf(s, c) ==
    IF \E i \in 1..Len(s) : s[i] = c
    THEN CHOOSE i \in 1..Len(s) : s[i] = c /\ \A j \in 1..(i - 1) : s[j] # c
    ELSE 0
ParseScalar(s) ==
    IF /\ Len(s) >= 1
       /\ \A i \in 1..Len(s) : IsDigit(s[i])
       /\ (Len(s) = 1 \/ s[1] # 48)
    THEN Val("num", Decimal(s), <<>>)
    ELSE IF /\ Len(s) >= 2
            /\ s[1] = 34
            /\ s[Len(s)] = 34
            /\ \A i \in 2..(Len(s) - 1) :
                  s[i] # 34 /\ s[i] # 92 /\ s[i] # 44 /\ s[i] # 58 /\ s[i] >= 32
    THEN Val("str", 0, SubSeq(s, 2, Len(s) - 1))
    ELSE IF s = <<110, 117, 108, 108>> THEN Null
    ELSE IF s = <<116, 114, 117, 101>> THEN Bool(TRUE)
    ELSE IF s = <<102, 97, 108, 115, 101>> THEN Bool(FALSE)
    ELSE Val("SyntaxError", 0, <<>>)
ParseValue(s) == IF s = <<123, 125>> THEN Obj(<<>>) ELSE ParseScalar(s)
\* One member "key":value.
ParseMember(s) ==
    LET j == IndexOf(s, 58)
        key == ParseScalar(SubSeq(s, 1, j - 1))
        val == ParseValue(SubSeq(s, j + 1, Len(s)))
    IN IF j = 0 \/ key.t # "str" \/ IsThrow(val)
       THEN [ok |-> FALSE, f |-> <<>>]
       ELSE [ok |-> TRUE, f |-> <<[k |-> key.s, v |-> val]>>]
\* The members between the braces, separated by commas.
RECURSIVE ParseMembers(_)
ParseMembers(s) ==
    LET i == IndexOf(s, 44)
        first == ParseMember(IF i = 0 THEN s ELSE SubSeq(s, 1, i - 1))
        rest == ParseMembers(SubSeq(s, i + 1, Len(s)))
    IN IF ~first.ok THEN first
       ELSE IF i = 0 THEN first
       ELSE IF ~rest.ok THEN rest
       ELSE [ok |-> TRUE, f |-> first.f \o rest.f]
JSONparse(s) ==
    LET scalar == ParseScalar(s)
        members == ParseMembers(SubSeq(s, 2, Len(s) - 1))
    IN IF ~IsThrow(scalar) THEN scalar
       ELSE IF Len(s) >= 2 /\ s[1] = 123 /\ s[Len(s)] = 125
       THEN (IF Len(s) = 2 THEN Obj(<<>>)
             ELSE IF members.ok THEN Obj(members.f)
             ELSE Val("SyntaxError", 0, <<>>))
       ELSE Val("SyntaxError", 0, <<>>)

\* decodeUpdateFrame(packet, packetType): the value, Null, or the error thrown.
decodeUpdateFrame(b, packetType) ==
    LET frameType == readUInt8(b, 0)
        payloadFormat == readUInt8(b, 1)
        flag == readUInt8(b, 2)
        body == slice(b, UPDATE_PACKET_HEADER_SIZE, Len(b))
        payload == IF flag.n # 0 THEN inflateSync(body) ELSE Val("buf", 0, body)
    IN IF IsThrow(frameType) THEN frameType
       ELSE IF packetType # frameType.n THEN Null
       ELSE IF IsThrow(payloadFormat) THEN payloadFormat
       ELSE IF IsThrow(flag) THEN flag
       ELSE IF IsThrow(payload) THEN payload
       ELSE IF frameType.n = 1
       THEN (IF payloadFormat.n = 1 THEN JSONparse(toString(payload.s)) ELSE Null)
       ELSE IF payloadFormat.n = 1 THEN JSONparse(toString(payload.s))
       ELSE IF payloadFormat.n = 2 THEN Val("str", 0, toString(payload.s))
       ELSE IF payloadFormat.n = 3 THEN payload
       ELSE Null

\* The result of decodeUpdatePacket: t is "null", "packet" or the error that
\* escaped; frames counts the decodeUpdateFrame calls made; action and payload
\* are what the two calls returned or threw (of a packet: its two fields).
Result(t, frames, action, payload) ==
    [t |-> t, frames |-> frames, action |-> action, payload |-> payload]

\* decodeUpdatePacket after its length checks: the two frames are decoded in
\* turn (a throw of the first leaves the second undecoded), and a falsy result
\* of either makes the packet null.
framesDecoded(actionFrame, payloadFrame) ==
    IF IsThrow(actionFrame)
    THEN Result(actionFrame.t, 1, actionFrame, NotCalled)
    ELSE IF IsThrow(payloadFrame)
    THEN Result(payloadFrame.t, 2, actionFrame, payloadFrame)
    ELSE IF Falsy(actionFrame) \/ Falsy(payloadFrame)
    THEN Result("null", 2, actionFrame, payloadFrame)
    ELSE Result("packet", 2, actionFrame, payloadFrame)

\* decodeUpdatePacket() without its comparison of packet.length.
decodeUpdatePacket_NoLengthCheck(b) ==
    LET len1 == readUInt32BE(b, 4)
        dataOffset == len1.n + UPDATE_PACKET_HEADER_SIZE
        len2 == readUInt32BE(b, dataOffset + 4)
    IN IF IsThrow(len1) \/ IsThrow(len2)
       THEN Result("null", 0, NotCalled, NotCalled)
       ELSE framesDecoded(decodeUpdateFrame(slice(b, 0, dataOffset), 1),
                          decodeUpdateFrame(slice(b, dataOffset, Len(b)), 2))

decodeUpdatePacket(b) ==
    LET len1 == readUInt32BE(b, 4)
        dataOffset == len1.n + UPDATE_PACKET_HEADER_SIZE
        len2 == readUInt32BE(b, dataOffset + 4)
    IN IF IsThrow(len1) \/ IsThrow(len2)
       THEN Result("null", 0, NotCalled, NotCalled)
       ELSE IF Len(b) # dataOffset + UPDATE_PACKET_HEADER_SIZE + len2.n
       THEN Result("null", 0, NotCalled, NotCalled)
       ELSE framesDecoded(decodeUpdateFrame(slice(b, 0, dataOffset), 1),
                          decodeUpdateFrame(slice(b, dataOffset, Len(b)), 2))

\* Words of the protocol, as characters.
STR_ACTION == <<97, 99, 116, 105, 111, 110>>
STR_UPDATE == <<117, 112, 100, 97, 116, 101>>
STR_MODELKEY == <<109, 111, 100, 101, 108, 75, 101, 121>>
STR_CAMERA == <<99, 97, 109, 101, 114, 97>>
STR_ID == <<105, 100>>
STR_STATS == <<115, 116, 97, 116, 115>>

\* a === 'text'
IsString(v, text) == v.t = "str" /\ v.s = text

\* driver.getDeviceById(id): the device registered under id, or nothing.
getDeviceById(registry, id) ==
    IF id.t = "str" /\ id.s \in registry THEN id ELSE Undef

\* What the decoding 'message' handler did: t is "threw", "dropped" (no packet),
\* "filtered" (not an update of a camera), "stats", "unknown" (no device) or
\* "forwarded"; lookups and forwards count its getDeviceById and
\* onParseWesocketMessage calls; device and sent are the arguments of the latter.
Handled(t, up, lookups, forwards, device, sent, registry) ==
    [t |-> t, frames |-> up.frames, result |-> up.t, action |-> up.action,
     payload |-> up.payload, lookups |-> lookups, forwards |-> forwards,
     device |-> device, sent |-> sent, registry |-> registry]

\* The handler without its test of modelKey.
dispatch_NoModelKey(updatePacket, registry) ==
    LET action == updatePacket.action
        payload == updatePacket.payload
        device == getDeviceById(registry, Get(action, STR_ID))
    IN IF IsThrow(updatePacket)
       THEN Handled("threw", updatePacket, 0, 0, Undef, Undef, registry)
       ELSE IF updatePacket.t = "null"
       THEN Handled("dropped", updatePacket, 0, 0, Undef, Undef, registry)
       ELSE IF ~IsString(Get(action, STR_ACTION), STR_UPDATE)
       THEN Handled("filtered", updatePacket, 0, 0, Undef, Undef, registry)
       ELSE IF ~Falsy(Get(payload, STR_STATS))
       THEN Handled("stats", updatePacket, 0, 0, Undef, Undef, registry)
       ELSE IF Falsy(device)
       THEN Handled("unknown", updatePacket, 1, 0, Undef, Undef, registry)
       ELSE Handled("forwarded", updatePacket, 1, 1, device, payload, registry)

\* The decoding 'message' handler after decodeUpdatePacket returned or threw.
dispatch(updatePacket, registry) ==
    LET action == updatePacket.action
        payload == updatePacket.payload
        device == getDeviceById(registry, Get(action, STR_ID))
    IN IF IsThrow(updatePacket)
       THEN Handled("threw", updatePacket, 0, 0, Undef, Undef, registry)
       ELSE IF updatePacket.t = "null"
       THEN Handled("dropped", updatePacket, 0, 0, Undef, Undef, registry)
       ELSE IF \/ ~IsString(Get(action, STR_ACTION), STR_UPDATE)
               \/ ~IsString(Get(action, STR_MODELKEY), STR_CAMERA)
       THEN Handled("filtered", updatePacket, 0, 0, Undef, Undef, registry)
       ELSE IF ~Falsy(Get(payload, STR_STATS))
       THEN Handled("stats", updatePacket, 0, 0, Undef, Undef, registry)
       ELSE IF Falsy(device)
       THEN Handled("unknown", updatePacket, 1, 0, Undef, Undef, registry)
       ELSE Handled("forwarded", updatePacket, 1, 1, device, payload, registry)

\* The decoding 'message' handler, with the devices registered at the time.
onMessage(b, registry) == dispatch(decodeUpdatePacket(b), registry)

\* --------------------------------------------------- the buffers generated
Alphabet == {34, 48, 123, 125, 255}
Texts == UNION {[1..n -> Alphabet] : n \in 0..MaxText}
Bodies == Texts \cup {deflateSync(d) : d \in Texts}

\* A 32-bit length, big-endian.
U32BE(n) == <<(n \div 16777216) % 256, (n \div 65536) % 256, (n \div 256) % 256,
              n % 256>>
Frame(type, format, flag, length, body) ==
    <<type, format, flag, 0>> \o U32BE(length) \o body

Frames == {Frame(ty, fo, fl, Len(bo), bo) :
              ty \in {1, 2}, fo \in 1..4, fl \in {0, 1}, bo \in Bodies}
\* A few sub-frames to pair each generated sub-frame with: one that decodes, one
\* that decodes to a falsy value, one of unparseable JSON, one that fails to
\* inflate.
Partners(type) ==
    {Frame(type, 1, 0, 2, <<123, 125>>), Frame(type, 1, 0, 1, <<48>>),
     Frame(type, 1, 0, 1, <<123>>), Frame(type, 1, 1, 2, <<123, 125>>)}
\* The same with a length field that is off by one or huge.
Mislengthed(type) ==
    {Frame(type, 1, 0, n, <<123, 125>>) : n \in {0, 1, 3, 16777216}}
Prefixes(b) == {SubSeq(b, 1, n) : n \in 0..Len(b)}

\* JSON.stringify, for the values the generated packets carry.
RECURSIVE Digits(_)
Digits(n) == IF n < 10 THEN <<48 + n>> ELSE Digits(n \div 10) \o <<48 + (n % 10)>>
RECURSIVE JSONstringify(_)
RECURSIVE StringifyMembers(_)
JSONstringify(v) ==
    IF v.t = "num" THEN Digits(v.n)
    ELSE IF v.t = "str" THEN <<34>> \o v.s \o <<34>>
    ELSE IF v.t = "bool"
    THEN (IF v.n = 1 THEN <<116, 114, 117, 101>> ELSE <<102, 97, 108, 115, 101>>)
    ELSE IF v.t = "obj" THEN <<123>> \o StringifyMembers(v.f) \o <<125>>
    ELSE <<110, 117, 108, 108>>
StringifyMembers(f) ==
    IF f = <<>> THEN <<>>
    ELSE <<34>> \o f[1].k \o <<34, 58>> \o JSONstringify(f[1].v)
         \o (IF Len(f) = 1 THEN <<>> ELSE <<44>> \o StringifyMembers(Tail(f)))

STR_ADD == <<97, 100, 100>>
STR_NVR == <<110, 118, 114>>
STR_C1 == <<99, 49>>
STR_C2 == <<99, 50>>
STR_LASTMOTION == <<108, 97, 115, 116, 77, 111, 116, 105, 111, 110>>
Str(s) == Val("str", 0, s)
Member(k, v) == [k |-> k, v |-> v]

\* The devices the driver may have registered when a message arrives.
Registries == {{}, {STR_C1}}

\* Action objects: updates and additions of cameras and of the NVR, for a
\* registered and an unregistered id, one without id, and the empty object.
Actions ==
    {Obj(<<Member(STR_ACTION, Str(a)), Member(STR_MODELKEY, Str(m)),
           Member(STR_ID, Str(i))>>) :
        a \in {STR_UPDATE, STR_ADD}, m \in {STR_CAMERA, STR_NVR},
        i \in {STR_C1, STR_C2}}
    \cup {Obj(<<Member(STR_ACTION, Str(STR_UPDATE)),
                Member(STR_MODELKEY, Str(STR_CAMERA))>>),
          Obj(<<>>)}
StatsValues ==
    {Val("num", 0, <<>>), Val("num", 1, <<>>), Str(<<>>), Str(<<48>>),
     Bool(FALSE), Bool(TRUE), Null, Obj(<<>>)}
\* Payload values of the three variants: JSON values, texts, byte sequences.
JSONPayloads ==
    {Obj(<<>>), Obj(<<Member(STR_LASTMOTION, Val("num", 1, <<>>))>>)}
    \cup {Obj(<<Member(STR_STATS, v)>>) : v \in StatsValues}
    \cup {Val("num", 0, <<>>), Val("num", 10, <<>>), Str(<<>>), Str(<<48>>),
          Null, Bool(FALSE), Bool(TRUE)}
TextPayloads == {Str(s) : s \in UNION {[1..n -> Alphabet \ {255}] : n \in 0..MaxText}}
BytePayloads == {Val("buf", 0, b) : b \in Texts}

\* A sub-frame of the documented layout around the bytes of a value,
\* deflated when the flag is set.
OnWire(bytes, flag) == IF flag = 1 THEN deflateSync(bytes) ELSE bytes
EncodeFrame(type, format, flag, bytes) ==
    Frame(type, format, flag, Len(OnWire(bytes, flag)), OnWire(bytes, flag))
PayloadBytes(v, format) == IF format = 1 THEN JSONstringify(v) ELSE v.s
Encode(action, aflag, payload, format, pflag) ==
    EncodeFrame(1, 1, aflag, JSONstringify(action))
    \o EncodeFrame(2, format, pflag, PayloadBytes(payload, format))
\* Every pair encoded, with the buffer it makes.
Encodings ==
    {[b |-> Encode(a, af, x[1], x[2], pf), action |-> a, payload |-> x[1]] :
        a \in Actions, af \in {0, 1}, pf \in {0, 1},
        x \in (JSONPayloads \X {1}) \cup (TextPayloads \X {2})
               \cup (BytePayloads \X {3})}

Packets ==
    {e.b : e \in Encodings}
    \cup {a \o p : a \in Frames, p \in Partners(2)}
    \cup {a \o p : a \in Partners(1), p \in Frames}
    \cup {a \o p : a \in Mislengthed(1) \cup Partners(1),
                   p \in Mislengthed(2) \cup Partners(2)}
    \cup UNION {Prefixes(a \o p) : a \in Partners(1), p \in Partners(2)}

\* A 'message' event arrives and the decoding handler runs on its buffer.
Message ==
    /\ handled = NoResult
    /\ \E registry \in Registries : handled' = onMessage(packet, registry)
    /\ UNCHANGED <<managerVars, packet, cameraVars>>

DecInit ==
    /\ InitManager
    /\ packet \in Packets
    /\ handled = NoResult
    /\ InitCamera

DecNext == Message

DecSpec == DecInit /\ [][DecNext]_vars

\* ------------------------------------------------------ the Camera device
\* Timestamps are milliseconds since the epoch, a day being DayLength of them.
MaxTime == 4
DayLength == 2
Times == 1..MaxTime

\* The capability values, as one value the methods map.
Camera == [last_motion_at |-> last_motion_at, alarm_motion |-> alarm_motion,
           last_motion_date |-> last_motion_date,
           last_motion_time |-> last_motion_time,
           last_ring_at |-> last_ring_at, trigger |-> doorbellRingingTrigger,
           ring |-> lastRingCall, started |-> cameraStarted,
           polls |-> cameraPolls, initRuns |-> initCameraRuns,
           initCursor |-> initCameraCursor]
CommitCamera(c) ==
    /\ last_motion_at' = c.last_motion_at
    /\ alarm_motion' = c.alarm_motion
    /\ last_motion_date' = c.last_motion_date
    /\ last_motion_time' = c.last_motion_time
    /\ last_ring_at' = c.last_ring_at
    /\ doorbellRingingTrigger' = c.trigger
    /\ lastRingCall' = c.ring
    /\ cameraStarted' = c.started
    /\ cameraPolls' = c.polls
    /\ initCameraRuns' = c.initRuns
    /\ initCameraCursor' = c.initCursor

\* new Date(t).toLocaleDateString() and .toLocaleTimeString(): the day and
\* the time of day, as text.
toLocaleDateString(t) == Str(Digits(t \div DayLength))
toLocaleTimeString(t) == Str(Digits(t % DayLength))

onMotionStart(c) == [c EXCEPT !.alarm_motion = Bool(TRUE)]
onMotionEnd(c) == [c EXCEPT !.alarm_motion = Bool(FALSE)]

\* onMotionDetected() without its comparison of the timestamps.
onMotionDetected_NoCompare(c, lastMotionTime, isMotionDetected) ==
    LET lastMotionAt == c.last_motion_at
    IN IF Falsy(lastMotionAt)
       THEN [c EXCEPT !.last_motion_at = Val("num", lastMotionTime, <<>>)]
       ELSE IF isMotionDetected
       THEN onMotionStart(
                [c EXCEPT !.last_motion_at = Val("num", lastMotionTime, <<>>),
                          !.last_motion_date = toLocaleDateString(lastMotionTime),
                          !.last_motion_time = toLocaleTimeString(lastMotionTime)])
       ELSE [onMotionEnd(c) EXCEPT
                !.last_motion_at = Val("num", lastMotionTime, <<>>)]

onMotionDetected(c, lastMotionTime, isMotionDetected) ==
    LET lastMotionAt == c.last_motion_at
    IN IF Falsy(lastMotionAt)
       THEN [c EXCEPT !.last_motion_at = Val("num", lastMotionTime, <<>>)]
       ELSE IF isMotionDetected /\ lastMotionTime > lastMotionAt.n
       THEN onMotionStart(
                [c EXCEPT !.last_motion_at = Val("num", lastMotionTime, <<>>),
                          !.last_motion_date = toLocaleDateString(lastMotionTime),
                          !.last_motion_time = toLocaleTimeString(lastMotionTime)])
       ELSE IF ~isMotionDetected /\ lastMotionTime > lastMotionAt.n
       THEN [onMotionEnd(c) EXCEPT
                !.last_motion_at = Val("num", lastMotionTime, <<>>)]
       ELSE c

\* initCamera(), up to its first await: the triggers are registered.
initCamera(c, cursor) ==
    [c EXCEPT !.trigger = TRUE, !.initRuns = @ + 1, !.initCursor = cursor]

\* Camera.waitForBootstrap() initialising without looking at the cursor.
cameraWaitForBootstrap_NoGate(c, cursor) == initCamera(c, cursor)

\* Camera.waitForBootstrap(): cursor is what getLastUpdateId() returns.
cameraWaitForBootstrap(c, cursor) ==
    IF Present(cursor)
    THEN initCamera(c, cursor)
    ELSE [c EXCEPT !.polls = @ + 1]

\* Camera.onInit()
onInit(c, cursor) == cameraWaitForBootstrap([c EXCEPT !.started = TRUE], cursor)

\* Homey initialises the device: once per device.
CallOnInit ==
    /\ ~cameraStarted
    /\ CommitCamera(onInit(Camera, lastUpdateId))
    /\ UNCHANGED <<managerVars, packet, handled, lastMotionCall>>

\* A 250 ms poll timer of the Camera fires.
CameraPollFire ==
    /\ cameraPolls > 0
    /\ CommitCamera(cameraWaitForBootstrap([Camera EXCEPT !.polls = @ - 1],
                                            lastUpdateId))
    /\ UNCHANGED <<managerVars, packet, handled, lastMotionCall>>

\* What an onDoorbellRinging(lastRing) call did, with the value it read.
Rang(c, lastRing, outcome) ==
    [c EXCEPT !.ring = [time |-> lastRing, outcome |-> outcome,
                        stored |-> c.last_ring_at]]

\* onDoorbellRinging() that takes every ring for the new baseline.
onDoorbellRinging_Rebase(c, lastRing) ==
    LET lastRingAt == c.last_ring_at
    IN IF Falsy(lastRingAt)
       THEN [Rang(c, lastRing, "stored") EXCEPT
                !.last_ring_at = Val("num", lastRing, <<>>)]
       ELSE IF lastRing > lastRingAt.n
       THEN [Rang(c, lastRing, IF c.trigger THEN "fired" ELSE "TypeError") EXCEPT
                !.last_ring_at = Val("num", lastRing, <<>>)]
       ELSE Rang(c, lastRing, "ignored")

\* onDoorbellRinging(lastRing): the trigger exists once initCamera has run;
\* before, `this._doorbellRingingTrigger.trigger` throws.
onDoorbellRinging(c, lastRing) ==
    LET lastRingAt == c.last_ring_at
    IN IF Falsy(lastRingAt)
       THEN [Rang(c, lastRing, "stored") EXCEPT
                !.last_ring_at = Val("num", lastRing, <<>>)]
       ELSE IF lastRing > lastRingAt.n
       THEN Rang(c, lastRing, IF c.trigger THEN "fired" ELSE "TypeError")
       ELSE Rang(c, lastRing, "ignored")

\* The driver reports a ring of the doorbell.
CallOnDoorbellRinging ==
    \E lastRing \in Times :
        /\ CommitCamera(onDoorbellRinging(Camera, lastRing))
        /\ UNCHANGED <<managerVars, packet, handled, lastMotionCall>>

\* The driver reports a motion event of the camera.
CallOnMotionDetected ==
    \E lastMotionTime \in Times, isMotionDetected \in BOOLEAN :
        /\ CommitCamera(onMotionDetected(Camera, lastMotionTime, isMotionDetected))
        /\ lastMotionCall' = [time |-> lastMotionTime, detected |-> isMotionDetected,
                              made |-> TRUE]
        /\ UNCHANGED <<managerVars, packet, handled>>

CamNext ==
    \/ CallOnMotionDetected
    \/ CallOnDoorbellRinging
    \/ CallOnInit
    \/ CameraPollFire
    \/ SetCursor

CamSpec == Init /\ [][CamNext]_vars

\* Timers are run by the event loop.
CamFairSpec == CamSpec /\ WF_vars(CameraPollFire)

\* ------------------------------------------------------------- properties
\* Sockets constructed whose 'close' event has not been delivered.
Live == {s \in Sockets : sock[s] \in {"connecting", "aborting", "open", "closing"}}

\* A step in which launchUpdatesListener() runs.
LaunchStep ==
    \/ CallLaunch
    \/ (CallWaitForBootstrap \/ ThenRun \/ PollFire) /\ Present(lastUpdateId)

\* C1: at most one socket is constructed and not yet closed, in every state; and
\* a launchUpdatesListener() run while a socket handle is held constructs no
\* socket, arms no timer and returns true.
C1_IdempotentConnect ==
    /\ [](Cardinality(Live) <= 1)
    /\ [][(LaunchStep /\ Truthy(eventListener)) =>
            /\ nsock' = nsock
            /\ sock' = sock
            /\ timers' = timers
            /\ polls' <= polls
            /\ thens' <= thens
            /\ lastLaunch'.kind = "noop"
            /\ lastLaunch'.ret = "true"]_vars

C1_Witness ==
    /\ lastLaunch.kind = "noop"
    /\ Truthy(eventListener)
    /\ Cardinality(Live) = 1
    /\ nsock = 1

\* C2: every 'close' event queues the bootstrap wait, a poll that finds no cursor
\* re-arms itself, and once a socket has closed and none is live, a new socket is
\* eventually constructed unless the cursor goes absent (or the model has used up
\* its sockets).
C2_ReconnectForever ==
    /\ [][SocketClose => thens' = thens + 1]_vars
    /\ [][(PollFire /\ ~Present(lastUpdateId)) => polls' = polls]_vars
    /\ ((nsock > 0 /\ Live = {}) ~>
            (Live # {} \/ ~Present(lastUpdateId) \/ nsock = MaxSockets))

\* C3: after the socket constructor threw inside a launch made by
\* waitForBootstrap, and while no socket is held and the cursor is present, a
\* poll or a bootstrap wait is pending.
C3_SelfHealing ==
    (/\ lastLaunch.kind = "threw"
     /\ lastLaunch.via = "bootstrap"
     /\ ~Truthy(eventListener)
     /\ Present(lastUpdateId))
    => (polls > 0 \/ thens > 0)

\* C4: once a socket's 'close' event has been handled (so also when the
\* reconnection it queues runs) that socket's heartbeat timer is not armed, and
\* no tick ever ran on the timer of a socket already closed.
C4_TeardownOrdering ==
    /\ \A s \in Sockets : sock[s] = "closed" => s \notin timers
    /\ lastPing.timer # 0 => lastPing.timerSock # "closed"

C4_Witness ==
    /\ sock[1] = "closed"
    /\ lastPing.timer = 2
    /\ lastPing.outcome = "send"

\* C5: no heartbeat tick sends on a socket between disconnectEventListener's
\* close() and that socket's 'close' event.
C5_DisconnectCancelsHeartbeat ==
    ~(lastPing.outcome = "send" /\ lastPing.closeRequested)

\* C6: a heartbeat timer is armed exactly when a socket handle is held, at most
\* one is armed, and an armed timer is the one this._pingPong names.
C6_JointOwnership ==
    /\ (timers # {}) <=> Truthy(eventListener)
    /\ Cardinality(timers) <= 1
    /\ \A t \in timers : pingPong = Ref(t) /\ eventListener = Ref(t)

C6_Witness ==
    /\ timers = {2}
    /\ eventListener = Ref(2)
    /\ sock[1] = "closed"

\* C7: no heartbeat tick sends on a socket that has not delivered 'open' yet.
C7_HeartbeatStartsAtOpen ==
    lastPing.outcome = "send" => lastPing.state # "connecting"

\* C8: every socket constructed by a launch made from waitForBootstrap (polls,
\* reconnection after 'close', direct calls of it) was constructed with the
\* cursor present.
C8_BootstrapGating ==
    (lastLaunch.kind = "created" /\ lastLaunch.via = "bootstrap")
    => Present(lastLaunch.cursor)

C8_Witness ==
    /\ lastLaunch.kind = "created"
    /\ lastLaunch.via = "bootstrap"
    /\ nsock = 2
    /\ sock[1] = "closed"

\* The big-endian number in the four bytes of b from offset off on.
FieldAt(b, off) ==
    b[off + 1] * 16777216 + b[off + 2] * 65536 + b[off + 3] * 256 + b[off + 4]
\* b is too short to hold either length field, or its length is not
\* 8 + actionPayloadLength + 8 + payloadLength.
BadLength(b) ==
    \/ Len(b) < 8
    \/ Len(b) < 8 + FieldAt(b, 4) + 8
    \/ Len(b) # 8 + FieldAt(b, 4) + 8 + FieldAt(b, 8 + FieldAt(b, 4) + 4)
\* The sub-frames of a buffer of the right length.
ActionOf(b) == SubSeq(b, 1, 8 + FieldAt(b, 4))
PayloadOf(b) == SubSeq(b, 8 + FieldAt(b, 4) + 1, Len(b))
\* A sub-frame whose text is unparseable JSON, or flagged compressed and failing
\* to inflate.
Unparseable(f) ==
    \/ f[3] # 0 /\ IsThrow(inflateSync(SubSeq(f, 9, Len(f))))
    \/ f[3] = 0 /\ f[2] = 1 /\ IsThrow(JSONparse(toString(SubSeq(f, 9, Len(f)))))
\* An object that has a member of that name.
HasField(v, key) == v.t = "obj" /\ \E i \in 1..Len(v.f) : v.f[i].k = key

\* C9: a buffer whose lengths validate and one of whose sub-frames is unparseable
\* JSON or fails to inflate is dropped by the message handler, and no exception
\* escapes it.
C9_MalformedFramesNeverThrow ==
    (/\ handled # NoResult
     /\ ~BadLength(packet)
     /\ Unparseable(ActionOf(packet)) \/ Unparseable(PayloadOf(packet)))
    => handled.t = "dropped"

\* C10: a buffer too short for either length field, or whose length is not
\* 8 + actionPayloadLength + 8 + payloadLength, is dropped without an exception
\* and without a call of decodeUpdateFrame.
C10_LengthMismatchRejected ==
    (handled # NoResult /\ BadLength(packet))
    => (handled.t = "dropped" /\ handled.frames = 0)

C10_Witness ==
    /\ handled.t = "dropped"
    /\ Len(packet) >= 16
    /\ Len(packet) >= 8 + FieldAt(packet, 4) + 8
    /\ BadLength(packet)

\* The pair a packet was encoded from, if it is one of the encodings.
Decodes(e) ==
    /\ handled.result = "packet"
    /\ handled.action = e.action
    /\ handled.payload = e.payload

\* C11 (round trip): decoding the packet encoded from an action object and a
\* payload of any of the three variants, compressed or not, yields exactly
\* that action and that payload.
C11_RoundTrip ==
    handled # NoResult => \A e \in Encodings : e.b = packet => Decodes(e)

\* The frame a call of decodeUpdateFrame(frame, type) was made on, with the
\* value it must return where the claim says so: "any" where it says nothing.
Expected(f, type) ==
    IF f[1] # type THEN Null
    ELSE IF type = 1 /\ f[2] # 1 THEN Null
    ELSE IF type = 2 /\ f[2] \notin {1, 2, 3} THEN Null
    ELSE IF f[3] # 0 THEN Val("any", 0, <<>>)
    ELSE IF f[2] = 2 THEN Str(toString(SubSeq(f, 9, Len(f))))
    ELSE IF f[2] = 3 THEN Val("buf", 0, SubSeq(f, 9, Len(f)))
    ELSE Val("any", 0, <<>>)
Meets(result, expected) == expected.t = "any" \/ result = expected

\* C12 (tag validation): a frame whose type tag differs from the one asked for
\* decodes to null, so does an action frame whose format is not JSON and a
\* payload frame whose format is none of the three; formats 2 and 3 return
\* the text and the unmodified bytes.
C12_TagValidation ==
    (handled # NoResult /\ ~BadLength(packet)) =>
        /\ Meets(handled.action, Expected(ActionOf(packet), 1))
        /\ handled.payload # NotCalled =>
               Meets(handled.payload, Expected(PayloadOf(packet), 2))

\* C13 (no partial delivery): when either frame decodes to null the packet is
\* null and the handler neither looks a device up nor forwards; a forward is
\* made only for a packet whose two frames both decoded.
C13_NoPartialDelivery ==
    handled # NoResult =>
        /\ (handled.action = Null \/ handled.payload = Null) =>
               /\ handled.result = "null"
               /\ handled.lookups = 0
               /\ handled.forwards = 0
        /\ handled.forwards > 0 =>
               /\ handled.result = "packet"
               /\ ~IsThrow(handled.action) /\ handled.action # Null
               /\ ~IsThrow(handled.payload) /\ handled.payload # Null
               /\ handled.payload # NotCalled

\* The action names an update of a camera the registry knows.
Wanted(action, registry) ==
    /\ HasField(action, STR_ACTION) /\ Get(action, STR_ACTION) = Str(STR_UPDATE)
    /\ HasField(action, STR_MODELKEY) /\ Get(action, STR_MODELKEY) = Str(STR_CAMERA)
    /\ HasField(action, STR_ID) /\ Get(action, STR_ID).t = "str"
    /\ Get(action, STR_ID).s \in registry

\* C14 (filter correctness): a decoded packet whose payload has no stats field
\* is forwarded, to the device of its id and with its payload, exactly when
\* its action is "update", its modelKey "camera" and the registry resolves
\* its id.
C14_FilterCorrectness ==
    (/\ handled # NoResult
     /\ handled.result = "packet"
     /\ ~HasField(handled.payload, STR_STATS)) =>
        IF Wanted(handled.action, handled.registry)
        THEN /\ handled.forwards = 1
             /\ handled.device = Get(handled.action, STR_ID)
             /\ handled.sent = handled.payload
        ELSE handled.forwards = 0
C14_Witness ==
    /\ handled # NoResult
    /\ handled.t = "forwarded"
    /\ HasField(handled.payload, STR_LASTMOTION)

\* C15 (stats presence): a decoded packet whose payload has a stats field,
\* whatever its value, is not forwarded.
C15_StatsPresenceCheck ==
    (/\ handled # NoResult
     /\ handled.result = "packet"
     /\ HasField(handled.payload, STR_STATS)) =>
        handled.forwards = 0

\* Steps of one socket's life.
Created == nsock' = nsock + 1
Opened == \E s \in Sockets : sock[s] = "connecting" /\ sock'[s] = "open"
Errored == \E s \in Sockets : sock[s] # "closing" /\ sock'[s] = "closing" /\ status' = "error"
Closed == \E s \in Sockets : sock[s] # "closed" /\ sock'[s] = "closed"
\* The armed heartbeat timer of the manager, if any.
Heartbeat == IF pingPong.tag = "object" THEN {pingPong.id} \cap timers ELSE {}
TornDown == ~Truthy(eventListener') /\ Heartbeat' = {} /\ thens' = thens + 1

C17_SingleTeardownAuthority ==
    [][/\ CallDisconnect => UNCHANGED <<eventListener, thens, polls, nsock>>
       /\ (Truthy(eventListener) /\ ~Truthy(eventListener')) => Closed
       /\ Closed =>
             /\ eventListener' = Undefined
             /\ eventListenerConfigured' = "false"
             /\ thens' = thens + 1
             /\ polls' = polls
             /\ nsock' = nsock]_vars
C17_Witness ==
    /\ Truthy(eventListener)
    /\ eventListener.id \in closeRequested
    /\ eventListenerConfigured = "false"
    /\ thens = 0
    /\ polls = 0

C19_ExactlyOnceDispatch ==
    Truthy(eventListener) => handlers[eventListener.id] <= 1

\* C20 (motion timestamp is monotone): over onMotionDetected calls the stored
\* last_motion_at is never lost and never decreases; a call whose
\* lastMotionTime is not greater than the stored value changes neither
\* last_motion_at nor alarm_motion; the call made with no stored value stores
\* its timestamp and leaves alarm_motion alone.
C20_MotionTimestampMonotone ==
    [][/\ last_motion_at # NoValue =>
             /\ last_motion_at' # NoValue
             /\ last_motion_at'.n >= last_motion_at.n
       /\ CallOnMotionDetected =>
             /\ (last_motion_at # NoValue /\ lastMotionCall'.time <= last_motion_at.n) =>
                    UNCHANGED <<last_motion_at, alarm_motion>>
             /\ last_motion_at = NoValue =>
                    /\ last_motion_at' = Val("num", lastMotionCall'.time, <<>>)
                    /\ UNCHANGED alarm_motion]_vars
C20_Witness ==
    /\ lastMotionCall.made
    /\ ~lastMotionCall.detected
    /\ last_motion_at # NoValue
    /\ lastMotionCall.time < last_motion_at.n
    /\ alarm_motion = Bool(TRUE)

\* C21 (doorbell trigger condition): onDoorbellRinging fires the trigger
\* only when a stored last_ring_at exists and lastRing is greater than it;
\* the call made with no stored value stores lastRing and does not fire;
\* no later call changes last_ring_at.
C21_DoorbellTriggerCondition ==
    /\ lastRingCall.outcome = "fired" =>
           /\ lastRingCall.stored # NoValue
           /\ lastRingCall.time > lastRingCall.stored.n
    /\ (lastRingCall.outcome # "none" /\ lastRingCall.stored = NoValue) =>
           /\ lastRingCall.outcome = "stored"
           /\ last_ring_at = Val("num", lastRingCall.time, <<>>)
    /\ (lastRingCall.outcome # "none" /\ lastRingCall.stored # NoValue) =>
           last_ring_at = lastRingCall.stored
C21_Witness ==
    /\ lastRingCall.outcome = "fired"
    /\ last_ring_at = Val("num", 1, <<>>)
    /\ lastRingCall.time > 2

\* C22 (camera initialisation is bootstrap-gated and happens once): after
\* onInit, initCamera runs at most once and only when the cursor is neither
\* undefined nor null; until it has run exactly one poll is pending, and none
\* afterwards; when the cursor is present for good, initCamera runs.
C22_CameraInitGatedOnce ==
    /\ [](initCameraRuns <= 1)
    /\ [](initCameraRuns > 0 => cameraStarted /\ Present(initCameraCursor))
    /\ [][initCameraRuns' > initCameraRuns => Present(lastUpdateId)]_vars
    /\ [](cameraPolls = IF cameraStarted /\ initCameraRuns = 0 THEN 1 ELSE 0)
    /\ ((<>cameraStarted /\ <>[]Present(lastUpdateId)) => <>(initCameraRuns = 1))
C22_Witness ==
    /\ cameraStarted
    /\ initCameraRuns = 1
    /\ cameraPolls = 0
    /\ doorbellRingingTrigger
    /\ initCameraCursor = "id"

====
